---- MODULE Spec2Model ----
(***************************************************************************)
(* A model of pygff (src/pygff/core.py): a GFF3 file is opened as a        *)
(* session (GffFile.__init__), which builds a sparse per-seqid index of    *)
(* (start, offset) pairs (_get_thresholds, _gen_index); the session is     *)
(* then read record by record (GffFile.__next__) or by region              *)
(* (GffFile.fetch, a generator that seeks via _find_le and scans forward). *)
(*                                                                         *)
(* The file is the input: a version directive followed by comment, blank  *)
(* and record lines.  The session has one handle, hence one cursor, which  *)
(* is a position in the file.                                              *)
(*                                                                         *)
(* Spec is a session on a small file with fetches and next(session);       *)
(* SpecShared two generators of fetch resumed in turns; SpecIndex the      *)
(* index build for a period given by the caller; SpecOrder the comparisons *)
(* of GffEntry; SpecSet the OrderedSet used by _get_thresholds.            *)
(***************************************************************************)
EXTENDS Integers, Sequences, FiniteSets, TLC

VARIABLES
    file,       \* the input: [gz, crlf, lines]
    period,     \* the argument period of GffFile(filename, period)
    session,    \* "new" (GffFile(...) not yet called), "open", "failed"
    err,        \* the exception GffFile(...) raised, or "none"
    usedThresholds, \* the table _gen_index got from _get_thresholds
    index,      \* self._index: seqid -> [start, pos], each an OrderedDict
    cursor,     \* position of self._handle
    gen,        \* the generator made by the latest fetch(...) call
    prev,       \* outcome of the fetch before it, when its arguments were the same
    iterOut,    \* values next(session) returned, for an iteration begun at open
    gen2,       \* a second generator of the session, advanced in turns with gen
    entries,    \* GffEntry objects that are compared with each other
    cmp,        \* the results of the comparisons of entries
    oset,       \* an OrderedSet object
    inserted,   \* the keys of oset in the order of their insertion
    ret         \* what the latest operation on oset returned or raised

\* the operands and results of GffEntry's comparisons
ordVars == <<entries, cmp>>
\* an OrderedSet and what is recorded about it
setVars == <<oset, inserted, ret>>

vars == <<file, period, session, err, usedThresholds, index, cursor, gen, prev, iterOut,
          gen2, ordVars, setVars>>

(***************************************************************************)
(* Bounds of the model.                                                    *)
(***************************************************************************)
\* lines of a file after its version directive
MaxLines == 2
\* largest coordinate of a record (1-indexed)
MaxCoord == 2
\* next(session) calls recorded for an iteration begun right after open
MaxIter == 2
\* largest key put into an OrderedSet
MaxKey == 4
\* lines after the version directive, largest start coordinate and largest
\* period of the files and sessions on which the index build is examined
MaxIdxLines == 3
MaxIdxCoord == 3
MaxPeriod == 2

(***************************************************************************)
(* The input files.                                                        *)
(***************************************************************************)
Seqids == {"chr1", "chr2"}
QuerySeqids == Seqids \cup {"chrX"}
\* fetch(..., type = None), and the type filters explored
NoType == "None"
TypeFilters == {NoType, "gene"}

Directive(v) == [kind |-> "directive", version |-> v]
Comment == [kind |-> "comment"]

\* The files explored: a version directive, then up to MaxLines lines, each a
\* comment or a record; the record on an odd line is a gene, on an even line
\* an exon.
TypeAt(i) == IF i % 2 = 1 THEN "gene" ELSE "exon"
BodyLinesAt(i) ==
    {Comment} \cup
    { r \in { [kind |-> "record", seqid |-> s, type |-> TypeAt(i),
               start |-> a, end |-> b] :
                 s \in Seqids, a \in 1..MaxCoord, b \in 1..MaxCoord } :
        r.start <= r.end }
AllBodyLines == UNION { BodyLinesAt(i) : i \in 1..MaxLines }
Bodies ==
    UNION { { b \in [1..n -> AllBodyLines] : \A i \in 1..n : b[i] \in BodyLinesAt(i) } :
            n \in 0..MaxLines }
\* these files end their lines with "\n"
Files ==
    { [gz |-> z, crlf |-> FALSE, lines |-> <<Directive(v)>> \o b] :
        z \in BOOLEAN, v \in {2, 3}, b \in Bodies }

\* a line that holds only its terminator
Blank == [kind |-> "blank"]

\* The files on which the index build is examined: version 3, lines that end
\* with "\n" or all with "\r\n", each line after the directive a comment, a
\* blank line or a record of one base (the index reads seqid and start only).
IdxLinesAt(i) ==
    {Comment, Blank} \cup
    { [kind |-> "record", seqid |-> s, type |-> TypeAt(i), start |-> a, end |-> a] :
        s \in Seqids, a \in 1..MaxIdxCoord }
AllIdxLines == UNION { IdxLinesAt(i) : i \in 1..MaxIdxLines }
IdxBodies ==
    UNION { { ls \in [1..n -> AllIdxLines] : \A i \in 1..n : ls[i] \in IdxLinesAt(i) } :
            n \in 0..MaxIdxLines }
IndexFiles ==
    { [gz |-> z, crlf |-> t, lines |-> <<Directive(3)>> \o ls] :
        z \in BOOLEAN, t \in BOOLEAN, ls \in IdxBodies }

\* GffFile(filename, period = 3)
DefaultPeriod == 3

\* Python's value None, as next(session) returns it
None == [kind |-> "None"]

\* str < str on the seqids used here (lexicographic)
SeqidRank(s) == CASE s = "chr1" -> 1 [] s = "chr2" -> 2 [] s = "chrX" -> 3
SeqidLt(a, b) == SeqidRank(a) < SeqidRank(b)

\* len(line) of a line as the handle yields it, terminator included:
\* "##gff-version 3\n", "#\n", "\n" and a record line of nine one-token
\* columns such as "chr1\t.\tgene\t1\t2\t.\t+\t.\tID=a\n".  The text handle
\* (open(filename, 'r'), universal newlines) yields a line that ends with
\* "\r\n" in the file as one that ends with "\n".
LineLen(l) ==
    CASE l.kind = "directive" -> 16
      [] l.kind = "comment" -> 2
      [] l.kind = "blank" -> 1
      [] l.kind = "record" -> 27

\* the bytes the line takes in the file
ByteLen(f, l) == LineLen(l) + (IF f.crlf THEN 1 ELSE 0)

RECURSIVE ByteOffsetOf(_, _)
\* the position in the file of the first byte of line i (1-based);
\* ByteOffsetOf(f, Len(f.lines) + 1) is the size of the file
ByteOffsetOf(f, i) ==
    IF i <= 1 THEN 0 ELSE ByteOffsetOf(f, i - 1) + ByteLen(f, f.lines[i - 1])

ByteSize(f) == ByteOffsetOf(f, Len(f.lines) + 1)

\* line.startswith('#')
StartsWithHash(l) == l.kind \in {"directive", "comment"}

RECURSIVE OffsetOf(_, _)
\* offset of line i of the file (1-based); OffsetOf(lines, Len(lines) + 1) is
\* the size of the file
OffsetOf(lines, i) ==
    IF i <= 1 THEN 0 ELSE OffsetOf(lines, i - 1) + LineLen(lines[i - 1])

FileSize(lines) == OffsetOf(lines, Len(lines) + 1)

\* the line that starts at offset pos
LineAt(lines, pos) ==
    lines[CHOOSE i \in 1..Len(lines) : OffsetOf(lines, i) = pos]

\* the records of the file, in file order
Records(lines) == SelectSeq(lines, LAMBDA l : l.kind = "record")

(***************************************************************************)
(* _is_zipped, _is_version_3                                               *)
(***************************************************************************)
IsZipped(f) == f.gz

\* int(gff.readline().strip().split()[1]) == 3
IsVersion3(f) == f.lines[1].version = 3

(***************************************************************************)
(* OrderedDict: a sequence of [key, val] in insertion order                *)
(***************************************************************************)
HasKey(d, k) == \E i \in 1..Len(d) : d[i].key = k
Lookup(d, k) == d[CHOOSE i \in 1..Len(d) : d[i].key = k].val
SetDefault(d, k, v) == IF HasKey(d, k) THEN d ELSE Append(d, [key |-> k, val |-> v])
Values(d) == [i \in 1..Len(d) |-> d[i].val]

(***************************************************************************)
(* _get_thresholds and _get_average_diffs                                  *)
(***************************************************************************)
\* OrderedSet.add over the starts of seqid s, in file order
RECURSIVE UniqueStarts(_, _, _)
UniqueStarts(lines, s, n) ==
    IF n = 0 THEN <<>>
    ELSE LET sofar == UniqueStarts(lines, s, n - 1)
             l == lines[n]
         IN  IF /\ ~StartsWithHash(l)
                /\ l.seqid = s
                /\ \A i \in 1..Len(sofar) : sofar[i] # l.start
             THEN Append(sofar, l.start)
             ELSE sofar

RECURSIVE SumSeq(_)
SumSeq(q) == IF q = <<>> THEN 0 ELSE Head(q) + SumSeq(Tail(q))

\* float -> int conversion: truncation toward zero
TruncDiv(a, b) == IF a >= 0 THEN a \div b ELSE -((-a) \div b)

\* the mean of an empty Series is NaN, and NaN.astype(int) is the most
\* negative integer: below every difference of two coordinates
NanAsInt == -(2 ^ 30)

\* pd.Series(starts).diff(periods).dropna().mean().astype(int)
AverageDiff(starts, periods) ==
    LET diffs == [i \in 1..(IF Len(starts) > periods THEN Len(starts) - periods ELSE 0)
                    |-> starts[i + periods] - starts[i]]
    IN  IF diffs = <<>> THEN NanAsInt ELSE TruncDiv(SumSeq(diffs), Len(diffs))

SeqidsOf(lines) == { lines[i].seqid : i \in { j \in 1..Len(lines) : ~StartsWithHash(lines[j]) } }

\* What handling the first line of the handle raises: a gzip handle yields
\* bytes, and line.startswith('#') on a bytes line that was not decoded
\* (gzipped is false) raises TypeError; a text handle yields str, and
\* line.decode (gzipped is true) raises AttributeError.
LineTypeError(f, gzipped) ==
    IF Len(f.lines) = 0 THEN "none"
    ELSE IF f.gz /\ ~gzipped THEN "TypeError"
    ELSE IF ~f.gz /\ gzipped THEN "AttributeError"
    ELSE "none"

\* "if not line" is false of a blank line, which is "\n" and not "": the line
\* goes on to "seqid, source, type, start, *others = line.strip().split('\t')",
\* which raises ValueError on the single field of a blank line
HasBlank(lines) == \E i \in 1..Len(lines) : lines[i].kind = "blank"

GetThresholds(f, periods, gzipped) ==
    IF LineTypeError(f, gzipped) # "none"
    THEN [err |-> LineTypeError(f, gzipped), thresholds |-> <<>>]
    ELSE IF HasBlank(f.lines)
    THEN [err |-> "ValueError", thresholds |-> <<>>]
    ELSE [err |-> "none",
          thresholds |-> [s \in SeqidsOf(f.lines) |->
              AverageDiff(UniqueStarts(f.lines, s, Len(f.lines)), periods)]]

(***************************************************************************)
(* _gen_index                                                              *)
(***************************************************************************)
EmptyIndex == <<>>

IndexStart ==
    [index |-> EmptyIndex, curr_pos |-> 0, curr_idx |-> 0, curr_threshold |-> 0,
     has_prev |-> FALSE, prev_start |-> 0]

\* the threshold is looked up for every record, and prev_start and curr_idx
\* are carried over from the seqid before
ResetNoPrev(acc, seqid, thresholds) ==
    [acc EXCEPT !.curr_threshold = thresholds[seqid]]

\* prev_start is left as it is for a seqid that has no index entry yet
ResetKeepsPrev(acc, seqid, thresholds) ==
    IF seqid \in DOMAIN acc.index THEN acc
    ELSE [acc EXCEPT !.curr_idx = 0, !.curr_threshold = thresholds[seqid]]

\* "if seqid not in index": the running state is reset for a seqid that has
\* no index entry yet
ResetOnNewSeqid(acc, seqid, thresholds) ==
    IF seqid \in DOMAIN acc.index THEN acc
    ELSE [acc EXCEPT !.has_prev = FALSE, !.curr_idx = 0,
                     !.curr_threshold = thresholds[seqid]]

\* the difference is compared with >= in place of >
EmitsOrEqual(acc, start) ==
    \/ ~acc.has_prev
    \/ start - acc.prev_start >= acc.curr_threshold

\* "if prev_start is None or (start - prev_start) > curr_threshold"
Emits(acc, start) ==
    \/ ~acc.has_prev
    \/ start - acc.prev_start > acc.curr_threshold

\* index.setdefault(seqid, ...), then setdefault(curr_idx, ...) on both dicts
AddEntry(idx, seqid, k, start, pos) ==
    LET old == IF seqid \in DOMAIN idx THEN idx[seqid]
               ELSE [start |-> <<>>, pos |-> <<>>]
        new == [start |-> SetDefault(old.start, k, start),
                pos |-> SetDefault(old.pos, k, pos)]
    IN  [s \in DOMAIN idx \cup {seqid} |-> IF s = seqid THEN new ELSE idx[s]]

\* one pass of the loop body over a line
IndexStep(acc, l, thresholds) ==
    IF StartsWithHash(l)
    THEN [acc EXCEPT !.curr_pos = @ + LineLen(l)]
    ELSE LET a == ResetOnNewSeqid(acc, l.seqid, thresholds)
         IN  IF Emits(a, l.start)
             THEN [a EXCEPT !.index = AddEntry(a.index, l.seqid, a.curr_idx,
                                               l.start, a.curr_pos),
                            !.curr_idx = @ + 1,
                            !.has_prev = TRUE,
                            !.prev_start = l.start,
                            !.curr_pos = @ + LineLen(l)]
             ELSE [a EXCEPT !.curr_pos = @ + LineLen(l)]

RECURSIVE IndexLoop(_, _, _)
IndexLoop(lines, n, thresholds) ==
    IF n = 0 THEN IndexStart
    ELSE IndexStep(IndexLoop(lines, n - 1, thresholds), lines[n], thresholds)

\* the handle is left at the end of the file by the loop; a blank line never
\* reaches the loop, _get_thresholds raises on it before
GenIndex(f, periods, gzipped) ==
    LET t == GetThresholds(f, periods, gzipped)
    IN  IF t.err # "none"
        THEN [err |-> t.err, index |-> EmptyIndex, thresholds |-> <<>>]
        ELSE [err |-> "none",
              index |-> IndexLoop(f.lines, Len(f.lines), t.thresholds).index,
              thresholds |-> t.thresholds]

\* a bool passed where an int is expected: False is 0, True is 1 (taken so
\* by Series.diff, as test_is_version_3 needs for a plain file to open)
BoolAsInt(b) == IF b THEN 1 ELSE 0

(***************************************************************************)
(* _find_le                                                                *)
(***************************************************************************)
RECURSIVE BisectLoop(_, _, _, _)
BisectLoop(a, x, lo, hi) ==
    IF lo >= hi THEN lo
    ELSE LET mid == (lo + hi) \div 2
         IN  IF x < a[mid + 1] THEN BisectLoop(a, x, lo, mid)
             ELSE BisectLoop(a, x, mid + 1, hi)

RECURSIVE BisectLeftLoop(_, _, _, _)
BisectLeftLoop(a, x, lo, hi) ==
    IF lo >= hi THEN lo
    ELSE LET mid == (lo + hi) \div 2
         IN  IF a[mid + 1] < x THEN BisectLeftLoop(a, x, mid + 1, hi)
             ELSE BisectLeftLoop(a, x, lo, mid)

\* bisect_left in place of bisect_right
BisectLeft(a, x) == BisectLeftLoop(a, x, 0, Len(a))

\* bisect.bisect_right(a, x): the binary search, whatever the order of a
BisectRight(a, x) == BisectLoop(a, x, 0, Len(a))

\* container['pos'][i] in place of container['pos'][i-1]
FindLeNext(container, start) ==
    LET i == BisectRight(Values(container.start), start)
    IN  IF i = 0 THEN [err |-> "ValueError", pos |-> 0]
        ELSE IF ~HasKey(container.pos, i) THEN [err |-> "KeyError(pos)", pos |-> 0]
        ELSE [err |-> "none", pos |-> Lookup(container.pos, i)]

FindLe(container, start) ==
    LET i == BisectRight(Values(container.start), start)
    IN  IF i = 0 THEN [err |-> "ValueError", pos |-> 0]
        ELSE IF ~HasKey(container.pos, i - 1) THEN [err |-> "KeyError(pos)", pos |-> 0]
        ELSE [err |-> "none", pos |-> Lookup(container.pos, i - 1)]

(***************************************************************************)
(* GffFile.__next__                                                        *)
(***************************************************************************)
\* "for line in self._handle": lines that start with '#' are skipped, the
\* first other line is returned as a GffEntry, and when the handle is
\* exhausted the loop ends and the method returns None
RECURSIVE NextEntry(_, _)
NextEntry(lines, cur) ==
    IF cur >= FileSize(lines) THEN [value |-> None, cursor |-> cur]
    ELSE LET l == LineAt(lines, cur)
         IN  IF StartsWithHash(l) THEN NextEntry(lines, cur + LineLen(l))
             ELSE [value |-> l, cursor |-> cur + LineLen(l)]

(***************************************************************************)
(* GffFile.fetch                                                           *)
(***************************************************************************)
Queries ==
    { q \in [seqid : QuerySeqids, start : 1..MaxCoord, end : 1..(MaxCoord + 1),
              type : TypeFilters] : q.start <= q.end }

\* "went too far right" tested with > in place of >=
ClassifyLate(entry, q) ==
    IF entry.seqid = q.seqid
    THEN IF entry.end < q.start THEN "continue"
         ELSE IF entry.start > q.end THEN "break"
         ELSE IF q.type # NoType /\ entry.type # q.type THEN "continue"
         ELSE "yield"
    ELSE IF SeqidLt(entry.seqid, q.seqid) THEN "continue" ELSE "break"

\* the body of the while loop, for an entry that is a GffEntry
Classify(entry, q) ==
    IF entry.seqid = q.seqid
    THEN IF entry.end < q.start THEN "continue"
         ELSE IF entry.start >= q.end THEN "break"
         ELSE IF q.type # NoType /\ entry.type # q.type THEN "continue"
         ELSE "yield"
    ELSE IF SeqidLt(entry.seqid, q.seqid) THEN "continue" ELSE "break"

\* the while loop, run until the generator yields, returns or raises;
\* entry.seqid on None raises AttributeError
RECURSIVE RunScan(_, _, _, _)
RunScan(lines, cur, q, reads) ==
    LET e == NextEntry(lines, cur)
    IN  IF e.value = None
        THEN [outcome |-> "AttributeError", value |-> None, cursor |-> e.cursor,
              reads |-> reads + 1]
        ELSE LET c == Classify(e.value, q)
             IN  IF c = "continue" THEN RunScan(lines, e.cursor, q, reads + 1)
                 ELSE [outcome |-> c, value |-> e.value, cursor |-> e.cursor,
                       reads |-> reads + 1]

\* the handle is moved only when it is at the end of the file
LazySeek(cur, offset) == IF cur >= FileSize(file.lines) THEN offset ELSE cur

\* self._handle.seek(start_offset)
Seek(cur, offset) == offset

\* a generator: where it stands (pc), its arguments (q), the records it has
\* yielded (out), the exception that ended it (err); and what is recorded of
\* its run: the seeks it made (seeks), the target of the latest (seekpos),
\* the lines it had read when it made it (seekAfter), the entries it has read
\* (reads), whether the handle was moved by someone else while it was
\* suspended (disturbed)
NoGen ==
    [pc |-> "none", q |-> [seqid |-> "chrX", start |-> 1, end |-> 1, type |-> NoType],
     out |-> <<>>, err |-> "none", disturbed |-> FALSE, seeks |-> 0, reads |-> 0,
     seekpos |-> 0, seekAfter |-> 0]

NoPrev == [set |-> FALSE, pc |-> "none", out |-> <<>>, err |-> "none"]

Raised(g, e) == [g EXCEPT !.pc = "raised", !.err = e]

\* the generator after the scan it resumed has stopped
AfterScan(g, r) ==
    LET g1 == [g EXCEPT !.reads = r.reads]
    IN  CASE r.outcome = "yield" ->
                [g1 EXCEPT !.pc = "suspended", !.out = Append(@, r.value)]
          [] r.outcome = "break" -> [g1 EXCEPT !.pc = "done"]
          [] r.outcome = "AttributeError" -> Raised(g1, "AttributeError")

\* fetch(q) consumed to its end with nothing else moving the handle: the
\* records it yields
RECURSIVE ScanAll(_, _, _)
ScanAll(lines, cur, q) ==
    LET r == RunScan(lines, cur, q, 0)
    IN  IF r.outcome = "yield" THEN <<r.value>> \o ScanAll(lines, r.cursor, q)
        ELSE <<>>

FetchAlone(f, idx, cur, q) ==
    IF q.seqid \notin DOMAIN idx THEN <<>>
    ELSE LET p == FindLe(idx[q.seqid], q.start)
         IN  IF p.err # "none" THEN <<>>
             ELSE ScanAll(f.lines, Seek(cur, p.pos), q)

(***************************************************************************)
(* The state machine                                                       *)
(***************************************************************************)
\* nothing is compared and no OrderedSet is at hand
NoOrd == entries = <<>> /\ cmp = <<>>
NoSet == oset = <<>> /\ inserted = <<>> /\ ret = <<>>

\* before GffFile(filename, period) is called
NewSession ==
    /\ session = "new"
    /\ err = "none"
    /\ usedThresholds = <<>>
    /\ index = EmptyIndex
    /\ cursor = 0
    /\ gen = NoGen
    /\ prev = NoPrev
    /\ iterOut = <<>>
    /\ gen2 = NoGen

\* GffFile(filename) on one of Files
Init ==
    /\ file \in Files
    /\ period = DefaultPeriod
    /\ NewSession
    /\ NoOrd
    /\ NoSet

\* GffFile(filename, period): the argument period is used nowhere;
\* _gen_index(self._handle, gzipped) binds gzipped to the parameter periods
\* and leaves the parameter gzipped at its default False; the message of the
\* version error names the undefined variable "version"
Open ==
    /\ session = "new"
    /\ LET gzipped == IsZipped(file)
       IN  IF ~IsVersion3(file)
           THEN /\ session' = "failed"
                /\ err' = "NameError"
                /\ UNCHANGED <<usedThresholds, index, cursor>>
           ELSE LET r == GenIndex(file, BoolAsInt(gzipped), FALSE)
                IN  IF r.err # "none"
                    THEN /\ session' = "failed"
                         /\ err' = r.err
                         /\ UNCHANGED <<usedThresholds, index, cursor>>
                    ELSE /\ session' = "open"
                         /\ err' = "none"
                         /\ usedThresholds' = r.thresholds
                         /\ index' = r.index
                         /\ cursor' = ByteSize(file)
    /\ UNCHANGED <<file, period, gen, prev, iterOut, gen2, ordVars, setVars>>

Finished(g) == g.pc \in {"done", "raised"}

\* session.fetch(seqid, start, end, type): makes the generator; none of its
\* body runs before the first next() on it.  A generator still suspended is
\* abandoned.  The sessions explored repeat one query.
FetchCall(q) ==
    /\ session = "open"
    /\ gen.pc = "none" \/ q = gen.q
    /\ prev' = IF Finished(gen) /\ ~gen.disturbed /\ gen.q = q
               THEN [set |-> TRUE, pc |-> gen.pc, out |-> gen.out, err |-> gen.err]
               ELSE NoPrev
    /\ gen' = [NoGen EXCEPT !.pc = "created", !.q = q]
    /\ iterOut' = <<>>
    /\ UNCHANGED <<file, period, session, err, usedThresholds, index, cursor>>
    /\ UNCHANGED <<gen2, ordVars, setVars>>

\* a suspended generator whose handle is moved by someone else
Disturb(g) == IF g.pc = "suspended" THEN [g EXCEPT !.disturbed = TRUE] ELSE g

\* next() on a generator g of fetch with the handle at cur: from its start,
\* the index lookup and the seek, then the scan up to the next yield, return
\* or exception; the generator and the position of the handle after it
Advance(g, cur) ==
    IF g.pc = "created"
    THEN IF g.q.seqid \notin DOMAIN index
         THEN [g |-> Raised(g, "KeyError(seqid)"), cursor |-> cur]
         ELSE LET f == FindLe(index[g.q.seqid], g.q.start)
              IN  IF f.err # "none"
                  THEN [g |-> Raised(g, f.err), cursor |-> cur]
                  ELSE LET to == Seek(cur, f.pos)
                           r == RunScan(file.lines, to, g.q, g.reads)
                       IN  [g |-> AfterScan([g EXCEPT !.seeks = @ + 1,
                                                      !.seekpos = to,
                                                      !.seekAfter = g.reads], r),
                            cursor |-> r.cursor]
    ELSE LET r == RunScan(file.lines, cur, g.q, g.reads)
         IN  [g |-> AfterScan(g, r), cursor |-> r.cursor]

\* next() on the generator gen
FetchNext ==
    /\ session = "open"
    /\ gen.pc \in {"created", "suspended"}
    /\ gen' = Advance(gen, cursor).g
    /\ cursor' = Advance(gen, cursor).cursor
    /\ gen2' = Disturb(gen2)
    /\ UNCHANGED <<file, period, session, err, usedThresholds, index, prev, iterOut>>
    /\ UNCHANGED <<ordVars, setVars>>

\* next(session), as "for line in session" calls it; the values it returns
\* are recorded while no fetch has been called on the session
IterNext ==
    /\ session = "open"
    /\ gen.pc = "none" => Len(iterOut) < MaxIter
    /\ LET e == NextEntry(file.lines, cursor)
       IN  /\ cursor' = e.cursor
           /\ iterOut' = IF gen.pc = "none" THEN Append(iterOut, e.value) ELSE iterOut
    /\ gen' = Disturb(gen)
    /\ gen2' = Disturb(gen2)
    /\ UNCHANGED <<file, period, session, err, usedThresholds, index, prev>>
    /\ UNCHANGED <<ordVars, setVars>>

Next ==
    \/ Open
    \/ \E q \in Queries : FetchCall(q)
    \/ FetchNext
    \/ IterNext

Spec == Init /\ [][Next]_vars

(***************************************************************************)
(* Two traversals of one session in turns: two generators of fetch made   *)
(* with the same arguments, each resumed at any time, and next(session)    *)
(* between.  The files are the plain version-3 files of Files whose        *)
(* records are one base long.                                              *)
(***************************************************************************)
\* the queries of the two generators
SharedQueries == { q \in Queries : q.seqid \in Seqids /\ q.type = NoType }

SharedFiles ==
    { f \in Files :
        /\ ~f.gz
        /\ IsVersion3(f)
        /\ \A i \in 1..Len(f.lines) :
              f.lines[i].kind = "record" => f.lines[i].end = f.lines[i].start }

InitShared ==
    /\ file \in SharedFiles
    /\ period = DefaultPeriod
    /\ NewSession
    /\ NoOrd
    /\ NoSet

\* g = session.fetch(...), once
FetchCall1(q) ==
    /\ gen.pc = "none"
    /\ FetchCall(q)

\* g2 = session.fetch(...) with the arguments of g, once
FetchCall2 ==
    /\ session = "open"
    /\ gen.pc # "none"
    /\ gen2.pc = "none"
    /\ gen2' = [NoGen EXCEPT !.pc = "created", !.q = gen.q]
    /\ UNCHANGED <<file, period, session, err, usedThresholds, index, cursor>>
    /\ UNCHANGED <<gen, prev, iterOut, ordVars, setVars>>

\* next() on the generator gen2
FetchNext2 ==
    /\ session = "open"
    /\ gen2.pc \in {"created", "suspended"}
    /\ gen2' = Advance(gen2, cursor).g
    /\ cursor' = Advance(gen2, cursor).cursor
    /\ gen' = Disturb(gen)
    /\ UNCHANGED <<file, period, session, err, usedThresholds, index, prev, iterOut>>
    /\ UNCHANGED <<ordVars, setVars>>

NextShared ==
    \/ Open
    \/ \E q \in SharedQueries : FetchCall1(q)
    \/ FetchCall2
    \/ FetchNext
    \/ FetchNext2
    \/ IterNext

SpecShared == InitShared /\ [][NextShared]_vars

(***************************************************************************)
(* The index build on its own: GffFile(filename, period) on one of         *)
(* IndexFiles, for every period up to MaxPeriod.                           *)
(***************************************************************************)
InitIndex ==
    /\ file \in IndexFiles
    /\ period \in 1..MaxPeriod
    /\ NewSession
    /\ NoOrd
    /\ NoSet

NextIndex == Open

SpecIndex == InitIndex /\ [][NextIndex]_vars

(***************************************************************************)
(* GffEntry's comparisons, on their own                                    *)
(***************************************************************************)
\* the GffEntry objects compared
Entries ==
    [kind : {"record"}, seqid : Seqids, type : {"gene", "exon"},
     start : 1..MaxCoord, end : 1..MaxCoord]

\* str <= str on the seqids
SeqidLe(a, b) == SeqidRank(a) <= SeqidRank(b)

\* GffEntry.__eq__
EntryEq(a, b) ==
    IF a.seqid = b.seqid
    THEN IF a.type = b.type
         THEN IF a.start = b.start
              THEN IF a.end = b.end THEN TRUE ELSE FALSE
              ELSE FALSE
         ELSE FALSE
    ELSE FALSE

\* GffEntry.__lt__
EntryLt(a, b) ==
    IF SeqidLe(a.seqid, b.seqid)
    THEN IF a.start < b.start THEN TRUE ELSE FALSE
    ELSE FALSE

\* object.__ne__, and what functools.total_ordering derives from __lt__:
\* a <= b is (a < b) or a == b, a > b is not (a < b) and a != b,
\* a >= b is not (a < b)
EntryNe(a, b) == ~EntryEq(a, b)
EntryLe(a, b) == EntryLt(a, b) \/ EntryEq(a, b)
EntryGt(a, b) == ~EntryLt(a, b) /\ EntryNe(a, b)
EntryGe(a, b) == ~EntryLt(a, b)

\* no file is opened while entries are compared or an OrderedSet is used
NoFile == [gz |-> FALSE, crlf |-> FALSE, lines |-> <<>>]
NoSession == file = NoFile /\ period = DefaultPeriod /\ NewSession

InitOrder ==
    /\ entries \in [1..3 -> Entries]
    /\ cmp = <<>>
    /\ NoSession
    /\ NoSet

\* every comparison operator applied to every pair of the entries
Compare ==
    /\ cmp = <<>>
    /\ cmp' = [i \in 1..3 |-> [j \in 1..3 |->
                 [lt |-> EntryLt(entries[i], entries[j]),
                  le |-> EntryLe(entries[i], entries[j]),
                  eq |-> EntryEq(entries[i], entries[j]),
                  ne |-> EntryNe(entries[i], entries[j]),
                  ge |-> EntryGe(entries[i], entries[j]),
                  gt |-> EntryGt(entries[i], entries[j])]]]
    /\ UNCHANGED <<file, period, session, err, usedThresholds, index, cursor>>
    /\ UNCHANGED <<gen, prev, iterOut, gen2, entries, setVars>>

NextOrder == Compare

SpecOrder == InitOrder /\ [][NextOrder]_vars

(***************************************************************************)
(* OrderedSet, on its own.  A node [key, prev, next] of the linked list is *)
(* named by its key, the sentinel self.end by End; self.map is the set of  *)
(* the keys that have a node, and prev and next give slots 1 and 2 of the  *)
(* sentinel and of the nodes in self.map.                                  *)
(***************************************************************************)
Keys == 1..MaxKey
End == 0

\* OrderedSet(): end += [None, end, end], self.map = {}
EmptyOrderedSet ==
    [map |-> {}, prev |-> (End :> End), next |-> (End :> End)]

\* a function changed or extended at one point
Put(f, x, y) == [z \in DOMAIN f \cup {x} |-> IF z = x THEN y ELSE f[z]]

\* add without "end[1] = ...": the sentinel's link to the last node is not set
OsAddNoBack(os, key) ==
    IF key \in os.map THEN os
    ELSE LET curr == os.prev[End]
         IN  [map |-> os.map \cup {key},
              prev |-> Put(os.prev, key, curr),
              next |-> Put(Put(os.next, key, End), curr, key)]

\* add: "curr = end[1]; curr[2] = end[1] = self.map[key] = [key, curr, end]"
OsAdd(os, key) ==
    IF key \in os.map THEN os
    ELSE LET curr == os.prev[End]
             next1 == Put(os.next, key, End)
             prev1 == Put(os.prev, key, curr)
         IN  [map |-> os.map \cup {key},
              prev |-> Put(prev1, End, key),
              next |-> Put(next1, curr, key)]

\* discard: "key, prev, next = self.map.pop(key); prev[2] = next;
\* next[1] = prev"; the node is no longer referred to
OsDiscard(os, key) ==
    IF key \notin os.map THEN os
    ELSE LET p == os.prev[key]
             n == os.next[key]
             next1 == Put(os.next, p, n)
             prev1 == Put(os.prev, n, p)
             left == (os.map \ {key}) \cup {End}
         IN  [map |-> os.map \ {key},
              prev |-> [z \in left |-> prev1[z]],
              next |-> [z \in left |-> next1[z]]]

\* pop: KeyError on an empty set, else the key of end[1] (last) or of end[2]
\* is discarded and returned
OsPop(os, last) ==
    IF os.map = {} THEN [os |-> os, ret |-> [kind |-> "KeyError"]]
    ELSE LET key == IF last THEN os.prev[End] ELSE os.next[End]
         IN  [os |-> OsDiscard(os, key), ret |-> [kind |-> "key", key |-> key]]

\* __len__
OsLen(os) == Cardinality(os.map)

\* __iter__: from end[2] along slot 2 until the sentinel is met (the walk
\* is cut after MaxKey + 1 nodes)
RECURSIVE OsWalk(_, _, _)
OsWalk(link, curr, fuel) ==
    IF curr = End \/ fuel = 0 THEN <<>>
    ELSE <<curr>> \o OsWalk(link, link[curr], fuel - 1)

OsIter(os) == OsWalk(os.next, os.next[End], MaxKey + 1)

\* __reversed__: from end[1] along slot 1
OsReversed(os) == OsWalk(os.prev, os.prev[End], MaxKey + 1)

InitSet ==
    /\ oset = EmptyOrderedSet
    /\ inserted = <<>>
    /\ ret = None
    /\ NoSession
    /\ NoOrd

\* the sequence without the key
Without(q, key) == SelectSeq(q, LAMBDA x : x # key)

SetAdd(key) ==
    /\ oset' = OsAdd(oset, key)
    /\ inserted' = IF \E i \in 1..Len(inserted) : inserted[i] = key
                   THEN inserted ELSE Append(inserted, key)
    /\ ret' = None
    /\ UNCHANGED <<file, period, session, err, usedThresholds, index, cursor>>
    /\ UNCHANGED <<gen, prev, iterOut, gen2, ordVars>>

SetDiscard(key) ==
    /\ oset' = OsDiscard(oset, key)
    /\ inserted' = Without(inserted, key)
    /\ ret' = None
    /\ UNCHANGED <<file, period, session, err, usedThresholds, index, cursor>>
    /\ UNCHANGED <<gen, prev, iterOut, gen2, ordVars>>

SetPop(last) ==
    /\ oset' = OsPop(oset, last).os
    /\ ret' = OsPop(oset, last).ret
    /\ inserted' = IF inserted = <<>> THEN inserted
                   ELSE IF last THEN SubSeq(inserted, 1, Len(inserted) - 1)
                   ELSE Tail(inserted)
    /\ UNCHANGED <<file, period, session, err, usedThresholds, index, cursor>>
    /\ UNCHANGED <<gen, prev, iterOut, gen2, ordVars>>

NextSet ==
    \/ \E key \in Keys : SetAdd(key)
    \/ \E key \in Keys : SetDiscard(key)
    \/ \E last \in BOOLEAN : SetPop(last)

SpecSet == InitSet /\ [][NextSet]_vars

(***************************************************************************)
(* Vocabulary of the properties                                            *)
(***************************************************************************)
IsPrefix(a, b) == Len(a) <= Len(b) /\ \A i \in 1..Len(a) : a[i] = b[i]

\* each seqid's records are contiguous and sorted by ascending start
ValidFile(lines) ==
    LET r == Records(lines)
    IN  /\ \A i, j \in 1..Len(r) :
              i < j /\ r[i].seqid = r[j].seqid => r[i].start <= r[j].start
        /\ \A i, j, k \in 1..Len(r) :
              i < j /\ j < k /\ r[i].seqid = r[k].seqid => r[j].seqid = r[i].seqid

\* the record is on the queried seqid, overlaps [start, end) and passes the
\* type filter
Overlaps(r, q) ==
    /\ r.seqid = q.seqid
    /\ r.end >= q.start
    /\ r.start < q.end
    /\ q.type = NoType \/ r.type = q.type

Expected(lines, q) == SelectSeq(Records(lines), LAMBDA r : Overlaps(r, q))

\* the generator has run its index lookup
Started(g) == g.pc \in {"suspended", "done", "raised"}

IndexedStarts(q) == Values(index[q.seqid].start)

\* the preconditions of fetch: seqid in the index, start not below the first
\* indexed coordinate
Preconditions(q) ==
    /\ q.seqid \in DOMAIN index
    /\ q.start >= IndexedStarts(q)[1]

\* the distinct seqids in file order
RECURSIVE SeqidOrder(_)
SeqidOrder(r) ==
    IF r = <<>> THEN <<>>
    ELSE LET rest == SeqidOrder(SelectSeq(Tail(r), LAMBDA x : x.seqid # Head(r).seqid))
         IN  <<Head(r).seqid>> \o rest

MinStart(r, s) ==
    LET mine == SelectSeq(r, LAMBDA x : x.seqid = s)
    IN  CHOOSE m \in { mine[i].start : i \in 1..Len(mine) } :
            \A i \in 1..Len(mine) : m <= mine[i].start

MaxEnd(r, s) ==
    LET mine == SelectSeq(r, LAMBDA x : x.seqid = s)
    IN  CHOOSE m \in { mine[i].end : i \in 1..Len(mine) } :
            \A i \in 1..Len(mine) : m >= mine[i].end

\* fetch(seqid, min_start, max_end) for every distinct seqid in file order,
\* concatenated
RECURSIVE ConcatFetches(_)
ConcatFetches(order) ==
    IF order = <<>> THEN <<>>
    ELSE LET r == Records(file.lines)
             s == Head(order)
             q == [seqid |-> s, start |-> MinStart(r, s), end |-> MaxEnd(r, s),
                   type |-> NoType]
         IN  FetchAlone(file, index, cursor, q) \o ConcatFetches(Tail(order))

(***************************************************************************)
(* C1  Completeness of fetch.  On a valid file, a fetch whose preconditions *)
(* hold and that ran alone to its end has yielded every record of the      *)
(* queried seqid that overlaps [start, end) and passes the type filter, in *)
(* file order (stated for start < end).  The code misses a record that begins before the index      *)
(* entry it seeks to and extends into the region.                          *)
(***************************************************************************)
C1_FetchComplete ==
    ( /\ session = "open"
      /\ ValidFile(file.lines)
      /\ Finished(gen)
      /\ gen.err \in {"none", "AttributeError"}
      /\ ~gen.disturbed
      /\ gen.q.start < gen.q.end
      /\ Preconditions(gen.q) )
    => gen.out = Expected(file.lines, gen.q)

(***************************************************************************)
(* C2  Boundary soundness of fetch.  Every record a fetch has yielded is   *)
(* on the queried seqid, has end >= start and start < end of the query,    *)
(* and has the queried type when a type is given, wherever the cursor was  *)
(* before and whatever moved it meanwhile.                                 *)
(***************************************************************************)
C2_BoundarySound ==
    \A i \in 1..Len(gen.out) : Overlaps(gen.out[i], gen.q)

\* a repeated, type-filtered fetch has yielded a record on a file that also
\* holds a record of the seqid it must not yield
C2_Witness ==
    /\ gen.out # <<>>
    /\ gen.q.type # NoType
    /\ prev.set
    /\ \E i \in 1..Len(file.lines) :
          /\ file.lines[i].kind = "record"
          /\ file.lines[i].seqid = gen.q.seqid
          /\ ~Overlaps(file.lines[i], gen.q)

(***************************************************************************)
(* C3  Iteration/fetch equivalence.  On a valid file, the values the       *)
(* iteration of the whole session yields, begun right after open, are the  *)
(* records of fetch(seqid, min_start, max_end) concatenated over the       *)
(* distinct seqids in file order.  Stated on every prefix of the           *)
(* iteration, for a file that holds a record.                              *)
(***************************************************************************)
C3_IterationEqualsFetches ==
    ( /\ session = "open"
      /\ gen.pc = "none"
      /\ Records(file.lines) # <<>>
      /\ ValidFile(file.lines) )
    => IsPrefix(iterOut, ConcatFetches(SeqidOrder(Records(file.lines))))

(***************************************************************************)
(* C4  Idempotence of fetch.  A fetch that ran alone to its end, called    *)
(* with the arguments of the fetch before it, which also ran alone to its  *)
(* end, ends the same way with the same records.                           *)
(***************************************************************************)
C4_Idempotent ==
    (prev.set /\ Finished(gen) /\ ~gen.disturbed)
    => /\ gen.out = prev.out
       /\ gen.pc = prev.pc
       /\ gen.err = prev.err

\* the second of two equal fetches has ended normally after yielding, from a
\* cursor that the first one left inside the file
C4_Witness ==
    /\ prev.set
    /\ gen.pc = "done"
    /\ ~gen.disturbed
    /\ gen.out # <<>>

(***************************************************************************)
(* C5  End of stream in sequential iteration.  Iterating a session from    *)
(* open yields the records of the file, in order, and nothing else: the    *)
(* values yielded so far are always a prefix of the file's records (stated *)
(* for a file that holds a record).                                        *)
(***************************************************************************)
C5_IterationYieldsRecords ==
    (session = "open" /\ gen.pc = "none" /\ Records(file.lines) # <<>>)
    => IsPrefix(iterOut, Records(file.lines))

(***************************************************************************)
(* C6  Finiteness of fetch.  On a valid file, a fetch whose preconditions  *)
(* hold and that runs alone never ends by raising an error.                *)
(***************************************************************************)
C6_FetchEndsNormally ==
    ( /\ session = "open"
      /\ ValidFile(file.lines)
      /\ Started(gen)
      /\ ~gen.disturbed
      /\ Preconditions(gen.q) )
    => gen.pc # "raised"

(***************************************************************************)
(* C7  Gzip transparency.  Opening a gzip-compressed version-3 file        *)
(* succeeds, with the index of the plain-text file of the same content.    *)
(***************************************************************************)
C7_GzipOpens ==
    (file.gz /\ IsVersion3(file) /\ session # "new")
    => /\ session = "open"
       /\ index = GenIndex([file EXCEPT !.gz = FALSE], 0, FALSE).index

(***************************************************************************)
(* C8  Unsupported version.  Opening a file whose directive declares a     *)
(* version other than 3 fails with TypeError, and no index is built.       *)
(***************************************************************************)
C8_VersionTypeError ==
    (~IsVersion3(file) /\ session # "new")
    => /\ session = "failed"
       /\ err = "TypeError"
       /\ index = EmptyIndex

(***************************************************************************)
(* C9  Unknown sequence.  A fetch for a seqid with no record in the file   *)
(* raises the not-found error (KeyError on the index) having yielded       *)
(* nothing, before any seek or read of the handle; and every seqid with a  *)
(* record in the file is in the index of an open session.                  *)
(***************************************************************************)
C9_UnknownSequence ==
    /\ session = "open" => \A s \in SeqidsOf(file.lines) : s \in DOMAIN index
    /\ (Started(gen) /\ gen.q.seqid \notin SeqidsOf(file.lines))
       => /\ gen.pc = "raised"
          /\ gen.err = "KeyError(seqid)"
          /\ gen.out = <<>>
          /\ gen.seeks = 0
          /\ gen.reads = 0

\* a fetch for a seqid absent from a file that holds two seqids has raised
C9_Witness ==
    /\ gen.pc = "raised"
    /\ gen.err = "KeyError(seqid)"
    /\ Cardinality(SeqidsOf(file.lines)) = 2
    /\ DOMAIN index = SeqidsOf(file.lines)

(***************************************************************************)
(* C10  Out of range.  A fetch whose start is below every indexed start of *)
(* the queried seqid raises the out-of-range error (ValueError) having     *)
(* yielded nothing; a fetch whose start is at or above the first indexed   *)
(* start never raises it.                                                  *)
(***************************************************************************)
C10_OutOfRange ==
    (Started(gen) /\ gen.q.seqid \in DOMAIN index)
    => LET starts == IndexedStarts(gen.q)
       IN  /\ (\A i \in 1..Len(starts) : gen.q.start < starts[i])
              => /\ gen.pc = "raised"
                 /\ gen.err = "ValueError"
                 /\ gen.out = <<>>
                 /\ gen.seeks = 0
           /\ gen.q.start >= starts[1] => gen.err # "ValueError"

\* a fetch below the starts of the two records of its seqid has raised
\* ValueError
C10_Witness ==
    /\ gen.pc = "raised"
    /\ gen.err = "ValueError"
    /\ Len(SelectSeq(Records(file.lines), LAMBDA r : r.seqid = gen.q.seqid)) = 2

(***************************************************************************)
(* Vocabulary of the properties of the index build                         *)
(***************************************************************************)
\* the seqids of the records of the file
RecordSeqids(lines) == { Records(lines)[i].seqid : i \in 1..Len(Records(lines)) }

\* the distinct starts of the records of seqid s, in first-seen order
RECURSIVE DistinctStarts(_, _)
DistinctStarts(r, s) ==
    IF r = <<>> THEN <<>>
    ELSE LET before == DistinctStarts(SubSeq(r, 1, Len(r) - 1), s)
             x == r[Len(r)]
         IN  IF x.seqid = s /\ \A i \in 1..Len(before) : before[i] # x.start
             THEN Append(before, x.start)
             ELSE before

\* the mean of coord[i] - coord[i - p] over i > p, truncated toward zero;
\* defined for more than p coordinates
MeanDiff(coord, p) ==
    LET n == Len(coord)
        total == SumSeq([i \in 1..(n - p) |-> coord[i + p] - coord[i]])
    IN  IF total >= 0 THEN total \div (n - p) ELSE -((-total) \div (n - p))

\* the file is plain text without blank lines
PlainNoBlank(f) == ~f.gz /\ \A i \in 1..Len(f.lines) : f.lines[i].kind # "blank"

(***************************************************************************)
(* C11  Period is honoured.  In a session opened with period p, the        *)
(* threshold used for a seqid with more than p distinct starts is the      *)
(* truncated mean of coord[i] - coord[i-p] over its distinct starts in     *)
(* first-seen order.  The code passes the gzip flag where the period is    *)
(* expected and never uses the caller's period.                            *)
(***************************************************************************)
C11_PeriodHonoured ==
    (session = "open" /\ PlainNoBlank(file))
    => \A s \in RecordSeqids(file.lines) :
          LET coord == DistinctStarts(Records(file.lines), s)
          IN  Len(coord) > period
              => /\ s \in DOMAIN usedThresholds
                 /\ usedThresholds[s] = MeanDiff(coord, period)

(***************************************************************************)
(* C12  Missing threshold.  When a seqid of the file has fewer than        *)
(* period + 1 distinct starts, either opening fails with the error of the  *)
(* missing threshold (KeyError on the threshold table), or the session     *)
(* opens with that seqid absent from the index.                            *)
(***************************************************************************)
C12_MissingThreshold ==
    (session # "new" /\ PlainNoBlank(file))
    => \A s \in RecordSeqids(file.lines) :
          Len(DistinctStarts(Records(file.lines), s)) < period + 1
          => \/ session = "failed" /\ err = "KeyError"
             \/ session = "open" /\ s \notin DOMAIN index

\* the records of each seqid are contiguous in the file
Contiguous(lines) ==
    LET r == Records(lines)
    IN  \A i, j, k \in 1..Len(r) :
            i < j /\ j < k /\ r[i].seqid = r[k].seqid => r[j].seqid = r[i].seqid

\* the local index keys are 0, 1, ..., n-1 and both the starts and the
\* offsets are strictly increasing in that order
Monotone(idx) ==
    \A s \in DOMAIN idx :
        LET st == idx[s].start
            ps == idx[s].pos
        IN  /\ Len(st) = Len(ps)
            /\ \A i \in 1..Len(st) : st[i].key = i - 1 /\ ps[i].key = i - 1
            /\ \A i, j \in 1..Len(st) :
                  i < j => st[i].val < st[j].val /\ ps[i].val < ps[j].val

(***************************************************************************)
(* C13  Index monotonicity, as claimed: after open completes, on every     *)
(* file, for every seqid of the index the keys are 0..n-1 and the start    *)
(* and pos values are strictly increasing.  A seqid met again after        *)
(* another one goes on with the running state of that other seqid.         *)
(***************************************************************************)
C13_IndexMonotone ==
    session = "open" => Monotone(index)

(***************************************************************************)
(* C13  Index monotonicity, amended: the same for every file in which the  *)
(* records of each seqid are contiguous (sorted by start or not).          *)
(***************************************************************************)
C13_ContiguousMonotone ==
    (session = "open" /\ Contiguous(file.lines)) => Monotone(index)

\* the index of a contiguous file holds two seqids, with two entries for
\* one of them
C13_Witness ==
    /\ session = "open"
    /\ Contiguous(file.lines)
    /\ DOMAIN index = Seqids
    /\ \E s \in DOMAIN index : Len(index[s].start) = 2

(***************************************************************************)
(* C14  Comment and blank lines.  Opening a plain file goes through its    *)
(* comment lines and its blank lines without error; no index entry is made *)
(* for them, and the offset of every entry counts the lengths of all the   *)
(* lines before its record, comment and blank lines too.  The code skips   *)
(* comment lines only: a blank line is "\n", which "not line" does not     *)
(* catch.                                                                  *)
(***************************************************************************)
C14_CommentsAndBlanksSkipped ==
    (session # "new" /\ ~file.gz)
    => /\ session = "open"
       /\ \A s \in DOMAIN index : \A k \in 1..Len(index[s].pos) :
             \E i \in 1..Len(file.lines) :
                /\ file.lines[i].kind = "record"
                /\ file.lines[i].seqid = s
                /\ index[s].pos[k].val = OffsetOf(file.lines, i)

\* a comes before b in the order by seqid, then start, then end
Before(a, b) ==
    \/ SeqidLt(a.seqid, b.seqid)
    \/ a.seqid = b.seqid /\ a.start < b.start
    \/ a.seqid = b.seqid /\ a.start = b.start /\ a.end < b.end

(***************************************************************************)
(* C15  Record ordering is a total order.  The operators of GffEntry order *)
(* records by seqid, then start, then end: a < b exactly when a comes      *)
(* before b in that order; of a < b, a == b, a > b exactly one holds; < is *)
(* transitive; and a <= b holds iff b < a does not.  In the code __lt__    *)
(* wants the start smaller whatever the seqids are, and __eq__ compares    *)
(* the type too.                                                           *)
(***************************************************************************)
C15_TotalOrder ==
    cmp # <<>>
    => /\ \A i, j \in 1..3 :
             /\ cmp[i][j].lt <=> Before(entries[i], entries[j])
             /\ cmp[i][j].gt <=> Before(entries[j], entries[i])
             /\ (cmp[i][j].lt /\ ~cmp[i][j].eq /\ ~cmp[i][j].gt)
                  \/ (~cmp[i][j].lt /\ cmp[i][j].eq /\ ~cmp[i][j].gt)
                  \/ (~cmp[i][j].lt /\ ~cmp[i][j].eq /\ cmp[i][j].gt)
             /\ cmp[i][j].le <=> ~cmp[j][i].lt
       /\ \A i, j, k \in 1..3 :
             cmp[i][j].lt /\ cmp[j][k].lt => cmp[i][k].lt

\* the records fetch(q) yields when it is the only traversal of a session
\* just opened
AloneOut(q) == FetchAlone(file, index, ByteSize(file), q)

(***************************************************************************)
(* C16  Shared cursor.  A generator of fetch between whose steps no other  *)
(* traversal has moved the handle (whatever traversals ran before it or    *)
(* are begun meanwhile) yields the records it yields when run alone: all   *)
(* of them once it has ended, a prefix of them while it is suspended.      *)
(* That interleaved steps do change the records is the witness.            *)
(***************************************************************************)
C16_AloneWhenNotInterleaved ==
    \A g \in {gen, gen2} :
        ~g.disturbed
        => /\ Finished(g) => g.out = AloneOut(g.q)
           /\ g.pc = "suspended" => IsPrefix(g.out, AloneOut(g.q))

\* two generators made with the same arguments were resumed in turns and
\* have ended: the first has yielded the records of a fetch run alone, two
\* or more, the second has lost one of them to the first
C16_Witness ==
    /\ Finished(gen) /\ Finished(gen2)
    /\ gen.disturbed /\ gen2.disturbed
    /\ Len(gen.out) >= 2
    /\ gen.out = AloneOut(gen.q)
    /\ gen2.out # AloneOut(gen2.q)
    /\ Len(gen2.out) < Len(gen.out)

\* The lines among the first n that get an index entry by the rule, for
\* seqid s with threshold t: a record of s gets one iff no record of s has
\* one yet or its start exceeds the start of the latest record of s that has
\* one by more than t.
RECURSIVE EmittedUpTo(_, _, _, _)
EmittedUpTo(lines, s, t, n) ==
    IF n = 0 THEN <<>>
    ELSE LET before == EmittedUpTo(lines, s, t, n - 1)
             l == lines[n]
         IN  IF /\ l.kind = "record"
                /\ l.seqid = s
                /\ \/ before = <<>>
                   \/ l.start - lines[before[Len(before)]].start > t
             THEN Append(before, n)
             ELSE before

\* the first record line of seqid s
FirstLineOf(lines, s) ==
    CHOOSE i \in 1..Len(lines) :
        /\ lines[i].kind = "record" /\ lines[i].seqid = s
        /\ \A j \in 1..(i - 1) : ~(lines[j].kind = "record" /\ lines[j].seqid = s)

(***************************************************************************)
(* C17  Index emission rule.  On a file in which the records of each seqid *)
(* are contiguous, the index has an entry for a record line iff the line   *)
(* is the first record of its seqid or its start exceeds the start of the  *)
(* most recently indexed record of the seqid by more than the threshold of *)
(* the seqid; the entries are numbered from 0 in file order, and entry 0   *)
(* is the first record of the seqid in the file.                           *)
(***************************************************************************)
C17_EmissionRule ==
    (session = "open" /\ Contiguous(file.lines))
    => /\ DOMAIN index = RecordSeqids(file.lines)
       /\ \A s \in DOMAIN index :
             LET e == EmittedUpTo(file.lines, s, usedThresholds[s], Len(file.lines))
             IN  /\ index[s].start =
                      [k \in 1..Len(e) |-> [key |-> k - 1, val |-> file.lines[e[k]].start]]
                 /\ index[s].pos =
                      [k \in 1..Len(e) |->
                          [key |-> k - 1, val |-> OffsetOf(file.lines, e[k])]]
                 /\ e[1] = FirstLineOf(file.lines, s)

\* the index of a contiguous file holds both seqids, and a record of the
\* file, which repeats the start of the record before it, has no entry
C17_Witness ==
    /\ session = "open"
    /\ Contiguous(file.lines)
    /\ DOMAIN index = Seqids
    /\ \E i \in 1..Len(file.lines) :
          /\ file.lines[i].kind = "record"
          /\ \A k \in 1..Len(index[file.lines[i].seqid].pos) :
                index[file.lines[i].seqid].pos[k].val # OffsetOf(file.lines, i)

(***************************************************************************)
(* C18  Index offsets land on the indexed line.  For every entry of the    *)
(* index of an open session, the stored pos is the position in the file of *)
(* a record line of the entry's seqid whose start is the stored start:     *)
(* the sum of the lengths, terminators included, of all the lines before   *)
(* it.  The code adds up len(line) of the lines as the text handle yields  *)
(* them, which is one short for every line that ends with "\r\n" in the    *)
(* file.                                                                   *)
(***************************************************************************)
C18_OffsetsOnLines ==
    session = "open"
    => \A s \in DOMAIN index : \A k \in 1..Len(index[s].pos) :
          \E i \in 1..Len(file.lines) :
             /\ file.lines[i].kind = "record"
             /\ file.lines[i].seqid = s
             /\ file.lines[i].start = index[s].start[k].val
             /\ index[s].pos[k].val = ByteOffsetOf(file, i)

\* the generator failed in its index lookup
LookupFailed(g) ==
    g.pc = "raised" /\ g.err \in {"KeyError(seqid)", "ValueError", "KeyError(pos)"}

\* pos is the offset of an index entry of the container whose start is the
\* greatest of the starts that are <= x
IsPredecessorPos(container, x, pos) ==
    \E k \in 1..Len(container.start) :
        /\ container.start[k].val <= x
        /\ \A j \in 1..Len(container.start) :
              container.start[j].val <= x
              => container.start[j].val <= container.start[k].val
        /\ HasKey(container.pos, container.start[k].key)
        /\ pos = Lookup(container.pos, container.start[k].key)

(***************************************************************************)
(* C19  Seek discipline of fetch.  A fetch makes at most one seek.  One    *)
(* whose index lookup fails (unknown seqid, start out of range) has made   *)
(* none, has read nothing, and the handle is where opening left it, no     *)
(* earlier call with the same arguments having moved it either.  One whose *)
(* lookup succeeds has made exactly one, before reading any line; and on a *)
(* file in which the records of each seqid are contiguous, as fetch        *)
(* requires, every fetch for an indexed seqid with a start not below the   *)
(* first indexed start succeeds in its lookup and seeks to the pos of the  *)
(* index entry with the greatest start <= the start of the query.          *)
(***************************************************************************)
C19_SeekDiscipline ==
    /\ gen.seeks <= 1
    /\ LookupFailed(gen)
       => gen.seeks = 0 /\ gen.reads = 0 /\ cursor = ByteSize(file)
    /\ (Started(gen) /\ ~LookupFailed(gen))
       => gen.seeks = 1 /\ gen.seekAfter = 0
    /\ ( /\ Started(gen)
         /\ Contiguous(file.lines)
         /\ gen.q.seqid \in DOMAIN index
         /\ gen.q.start >= IndexedStarts(gen.q)[1] )
       => /\ gen.seeks = 1
          /\ IsPredecessorPos(index[gen.q.seqid], gen.q.start, gen.seekpos)

\* a fetch has sought to the second of the two index entries of its seqid,
\* and has read on from there
C19_Witness ==
    /\ Started(gen)
    /\ gen.seeks = 1
    /\ gen.reads >= 1
    /\ Len(index[gen.q.seqid].pos) = 2
    /\ gen.seekpos = index[gen.q.seqid].pos[2].val

\* the sequence backwards
Reverse(q) == [i \in 1..Len(q) |-> q[Len(q) + 1 - i]]

(***************************************************************************)
(* C20  OrderedSet consistency.  After any sequence of add, discard and    *)
(* pop, iteration yields the keys in the set, each once, in the order of   *)
(* their insertion; reversed iteration yields the reverse; len is the      *)
(* number of keys; the prev and next links of the list agree with each     *)
(* other and with the key map, the nodes linked being those of the keys in *)
(* the map.  A key that pop returned is no longer in the set, and a pop    *)
(* that raised KeyError has left the set empty.                            *)
(***************************************************************************)
C20_OrderedSetConsistent ==
    /\ OsIter(oset) = inserted
    /\ OsReversed(oset) = Reverse(inserted)
    /\ OsLen(oset) = Len(inserted)
    /\ oset.map = { inserted[i] : i \in 1..Len(inserted) }
    /\ \A i, j \in 1..Len(inserted) : i # j => inserted[i] # inserted[j]
    /\ DOMAIN oset.next = oset.map \cup {End}
    /\ DOMAIN oset.prev = oset.map \cup {End}
    /\ \A x \in oset.map \cup {End} :
          /\ oset.next[x] \in oset.map \cup {End}
          /\ oset.prev[x] \in oset.map \cup {End}
          /\ oset.prev[oset.next[x]] = x
          /\ oset.next[oset.prev[x]] = x
    /\ ret.kind = "key" => ret.key \notin oset.map
    /\ ret.kind = "KeyError" => oset.map = {}

\* a set of three keys that are not in ascending order, after a pop that
\* returned a key
C20_Witness ==
    /\ Len(inserted) = 3
    /\ inserted[1] > inserted[2]
    /\ ret.kind = "key"
    /\ OsIter(oset) = inserted
====
